---- MODULE Spec2Model ----
(***************************************************************************)
(* A model of ksrt (src/main.rs): the comment stripper, the protobuf       *)
(* reference-graph builder, and the `post' command pipeline.               *)
(*                                                                         *)
(* Texts are sequences of one-character strings; offsets are 0-based and   *)
(* half-open, as Rust's byte offsets are.  Option<T> is a sequence of      *)
(* length 0 (None) or 1 (Some).                                            *)
(***************************************************************************)
EXTENDS Integers, Sequences, FiniteSets, TLC

None == <<>>
Some(v) == <<v>>

\* Rust's &s[a..b] and &s[a..]
Slice(s, a, b) == SubSeq(s, a + 1, b)
SliceFrom(s, a) == SubSeq(s, a + 1, Len(s))

SetMin(S) == CHOOSE m \in S : \A n \in S : m <= n

\* ------------------------------------------------------------------------
\* The comment stripper
\* ------------------------------------------------------------------------

\* Regex /\*.*?\*/ with dot_matches_new_line: the leftmost match at or after
\* offset `from'; lazy, so it ends at the first closer after the opener.
ml_closers(s, i) ==
  { j \in (i + 2)..(Len(s) - 2) : s[j + 1] = "*" /\ s[j + 2] = "/" }

ml_comment_find(s, from) ==
  LET starts == { i \in from..(Len(s) - 4) :
                    /\ s[i + 1] = "/" /\ s[i + 2] = "*"
                    /\ ml_closers(s, i) # {} }
  IN  IF starts = {} THEN None
      ELSE LET i == SetMin(starts)
           IN  Some([start |-> i, end |-> SetMin(ml_closers(s, i)) + 2])

\* Regex //.*$ with multi_line: from the leftmost `//' at or after `from' to
\* the end of that line (dot does not match \n; $ matches before \n or at the
\* end of the haystack).
sl_comment_find(s, from) ==
  LET starts == { i \in from..(Len(s) - 2) : s[i + 1] = "/" /\ s[i + 2] = "/" }
  IN  IF starts = {} THEN None
      ELSE LET i == SetMin(starts)
               nls == { j \in (i + 2)..(Len(s) - 1) : s[j + 1] = "\n" }
           IN  Some([start |-> i,
                     end |-> IF nls = {} THEN Len(s) ELSE SetMin(nls)])

\* Regex::find_iter: successive non-overlapping matches, left to right
RECURSIVE ml_find_iter(_, _)
ml_find_iter(s, from) ==
  LET m == ml_comment_find(s, from)
  IN  IF m = None THEN <<>>
      ELSE <<m[1]>> \o ml_find_iter(s, m[1].end)

RECURSIVE sl_find_iter(_, _)
sl_find_iter(s, from) ==
  LET m == sl_comment_find(s, from)
  IN  IF m = None THEN <<>>
      ELSE <<m[1]>> \o sl_find_iter(s, m[1].end)

\* The inner loop: push lines[sl_start..sl_match.start()] for every match.
\* Returns the text pushed and the final sl_start.
RECURSIVE sl_loop(_, _, _, _)
sl_loop(lines, ms, k, sl_start) ==
  IF k > Len(ms) THEN [pushed |-> <<>>, sl_start |-> sl_start]
  ELSE LET r == sl_loop(lines, ms, k + 1, ms[k].end)
       IN  [pushed |-> Slice(lines, sl_start, ms[k].start) \o r.pushed,
            sl_start |-> r.sl_start]

\* The outer loop over the block-comment matches: buf after the loop, and
\* the final ml_start.
RECURSIVE ml_loop(_, _, _, _, _)
ml_loop(schema, ms, k, ml_start, buf) ==
  IF k > Len(ms) THEN [buf |-> buf, ml_start |-> ml_start]
  ELSE LET lines == Slice(schema, ml_start, ms[k].start)
           b     == IF buf = None THEN <<>> ELSE buf[1]
           r     == sl_loop(lines, sl_find_iter(lines, 0), 1, 0)
       IN  ml_loop(schema, ms, k + 1, ms[k].end,
                   Some(b \o r.pushed \o SliceFrom(lines, r.sl_start)))

\* A plausible slip: the line comments are cut out of the whole text first,
\* the block comments out of what is left.
strip_comments_lines_first(schema) ==
  LET r == sl_loop(schema, sl_find_iter(schema, 0), 1, 0)
      t == r.pushed \o SliceFrom(schema, r.sl_start)
      o == ml_loop(t, ml_find_iter(t, 0), 1, 0, None)
  IN  IF o.buf = None THEN t ELSE o.buf[1] \o SliceFrom(t, o.ml_start)

strip_comments(schema) ==
  LET o     == ml_loop(schema, ml_find_iter(schema, 0), 1, 0, None)
      lines == SliceFrom(schema, o.ml_start)
      sms   == sl_find_iter(lines, 0)
      r     == sl_loop(lines, sms, 1, 0)
      buf   == IF sms = <<>> THEN o.buf
               ELSE Some((IF o.buf = None THEN <<>> ELSE o.buf[1]) \o r.pushed)
  IN  IF buf # None THEN buf[1] \o SliceFrom(lines, r.sl_start)
      ELSE schema

\* ------------------------------------------------------------------------
\* The reference graph builder
\* ------------------------------------------------------------------------

\* [String]::join(sep)
RECURSIVE join(_, _)
join(parts, sep) ==
  IF parts = <<>> THEN ""
  ELSE IF Len(parts) = 1 THEN parts[1]
  ELSE parts[1] \o sep \o join(Tail(parts), sep)

\* A FileDescriptorProto, reduced to the four fields the program reads
FileDescriptorProto(name, package, message_type, dependency) ==
  [name |-> name, package |-> package,
   message_type |-> message_type, dependency |-> dependency]

DescriptorProto(name) == [name |-> name]

\* A plausible slip: the nested references are left out.
SuppliedReference_flat(name, subject, schema, references) ==
  [name |-> name, subject |-> subject, schema |-> schema,
   references |-> <<>>]

SuppliedReference(name, subject, schema, references) ==
  [name |-> name, subject |-> subject, schema |-> schema,
   references |-> references]

\* A plausible slip: the new reference goes to the front.
push_front(refs, r) == <<r>> \o refs

\* Vec::push
push(refs, r) == Append(refs, r)

Ok(v) == [kind |-> "ok", value |-> v]
Err(msg, name) == [kind |-> "err", msg |-> msg, name |-> name]
\* The recursion never returns: the thread's stack is exhausted and the
\* process is aborted.
StackOverflow == [kind |-> "overflow"]

\* fds.iter().find(|dep| dep.name.as_deref() == Some(name))
find_fd(fds, name) ==
  LET hits == { i \in 1..Len(fds) : fds[i].name = Some(name) }
  IN  IF hits = {} THEN None ELSE Some(fds[SetMin(hits)])

\* fd.package.iter().cloned().chain(mt.name.clone()).collect().join(".")
subject_of(fd, mt) == join(fd.package \o mt.name, ".")

\* Every nested call is made on an entry of fds, so a chain of more than
\* Len(fds) nested calls visits some entry twice; the calls are deterministic,
\* so it then descends for ever.
\* A plausible slip: a failure inside the fold ends it with the references
\* built so far instead of the error.
RECURSIVE refs_try_fold_partial(_, _, _, _, _, _)
refs_try_fold_partial(fd, fds, schemas, depth, k, refs) ==
  IF depth > Len(fds) THEN StackOverflow
  ELSE IF k > Len(fd.dependency) THEN Ok(refs)
  ELSE
    LET name  == fd.dependency[k]
        found == find_fd(fds, name)
    IN  IF found = None \/ name \notin DOMAIN schemas THEN Ok(refs)
        ELSE IF found[1].message_type = <<>> THEN Ok(refs)
        ELSE
          LET dep    == found[1]
              nested == refs_try_fold_partial(dep, fds, schemas, depth + 1, 1, <<>>)
          IN  IF nested.kind # "ok" THEN nested
              ELSE refs_try_fold_partial(fd, fds, schemas, depth, k + 1,
                     push(refs,
                       SuppliedReference(name,
                         subject_of(dep, dep.message_type[1]),
                         schemas[name], nested.value)))

RECURSIVE refs_try_fold(_, _, _, _, _, _)
refs_try_fold(fd, fds, schemas, depth, k, refs) ==
  IF depth > Len(fds) THEN StackOverflow
  ELSE IF k > Len(fd.dependency) THEN Ok(refs)
  ELSE
    LET name  == fd.dependency[k]
        found == find_fd(fds, name)
    IN  IF found = None
        THEN Err("failed to locate file for dependency", name)
        ELSE
          LET dep == found[1]
          IN  IF dep.message_type = <<>>
              THEN Err("failed to locate a top-level message type in", name)
              ELSE IF name \notin DOMAIN schemas
              THEN Err("failed to locate schema for", name)
              ELSE
                LET nested == refs_try_fold(dep, fds, schemas, depth + 1, 1, <<>>)
                IN  IF nested.kind # "ok" THEN nested
                    ELSE refs_try_fold(fd, fds, schemas, depth, k + 1,
                           push(refs,
                             SuppliedReference(name,
                               subject_of(dep, dep.message_type[1]),
                               schemas[name], nested.value)))

get_protobuf_references(fd, fds, schemas) ==
  refs_try_fold(fd, fds, schemas, 0, 1, <<>>)

\* ------------------------------------------------------------------------
\* State
\* ------------------------------------------------------------------------

VARIABLES
  schema,       \* strip_comments: the text handed in
  stripped,     \* strip_comments(schema), once computed
  restripped,   \* strip_comments of that, once computed
  fd,           \* get_protobuf_references: the descriptor resolved
  fds,          \* the descriptor list searched (fd_set.file)
  schemas,      \* file name -> loaded source text
  result,       \* what get_protobuf_references returned, once called
  pc,           \* the post command: position in main
  settings,     \* PostSettings
  disk,         \* file name -> on-disk contents
  supplied,     \* the assembled SuppliedSchema, once built
  post_calls    \* number of calls of post_schema so far

strip_vars == <<schema, stripped, restripped>>
refs_vars  == <<fd, fds, schemas, result>>
post_vars  == <<pc, settings, disk, supplied, post_calls>>
vars == <<schema, stripped, restripped, fd, fds, schemas, result,
          pc, settings, disk, supplied, post_calls>>

\* The parts of the state a specification leaves untouched
StripIdle == schema = <<>> /\ stripped = None /\ restripped = None
RefsIdle  == fd = None /\ fds = <<>> /\ schemas = <<>> /\ result = None
PostIdle  == /\ pc = "idle" /\ settings = None /\ disk = <<>>
             /\ supplied = None /\ post_calls = 0

\* ------------------------------------------------------------------------
\* strip_comments applied to every short text, once and twice
\* ------------------------------------------------------------------------

MaxLen == 7

Alphabet == {"/", "*", "\n", "a"}

Texts == UNION { [1..n -> Alphabet] : n \in 0..MaxLen }

InitStrip ==
  /\ schema \in Texts
  /\ stripped = None /\ restripped = None
  /\ RefsIdle /\ PostIdle

Strip ==
  /\ stripped = None
  /\ stripped' = Some(strip_comments(schema))
  /\ UNCHANGED <<schema, restripped, refs_vars, post_vars>>

Restrip ==
  /\ stripped # None /\ restripped = None
  /\ restripped' = Some(strip_comments(stripped[1]))
  /\ UNCHANGED <<schema, stripped, refs_vars, post_vars>>

NextStrip == Strip \/ Restrip

SpecStrip == InitStrip /\ [][NextStrip]_vars

\* ------------------------------------------------------------------------
\* get_protobuf_references applied to small descriptor lists
\* ------------------------------------------------------------------------

MaxDeps == 2

FileNames == {"a", "b", "c"}

Range(f) == { f[i] : i \in DOMAIN f }

\* Dependency lists: protoc rejects a file that imports the same file twice
DependencyLists ==
  { d \in UNION { [1..n -> FileNames] : n \in 0..MaxDeps } :
      \A i, j \in DOMAIN d : i # j => d[i] # d[j] }

NameOrder == <<"a", "b", "c">>

Packages == {None, Some(""), Some("p"), Some("p.q")}

MessageTypes ==
  LET mts == {DescriptorProto(None), DescriptorProto(Some("M")),
              DescriptorProto(Some("N"))}
  IN  UNION { [1..n -> mts] : n \in 0..2 }

\* Import graphs: the descriptor resolved is "r", which is not in the list
\* (post_protobuf_schema pops the root off it); any subset of FileNames has a
\* descriptor in the list, so a dependency may name a file that has none, and
\* the imports may form cycles.
GraphInputs ==
  \E present \in SUBSET FileNames :
    \E deps \in [present -> DependencyLists], rdeps \in DependencyLists :
      /\ fd = FileDescriptorProto(Some("r"), Some("p"),
                <<DescriptorProto(Some("R"))>>, rdeps)
      /\ fds = LET ns == SelectSeq(NameOrder, LAMBDA n : n \in present)
               IN  [i \in 1..Len(ns) |->
                      FileDescriptorProto(Some(ns[i]), Some("p"),
                        <<DescriptorProto(Some("M"))>>, deps[ns[i]])]
      /\ schemas = [n \in FileNames |-> <<n>>]

\* One import, whose descriptor varies in package and message types and
\* whose source text may not have been loaded
ShapeInputs ==
  \E package \in Packages, message_type \in MessageTypes,
     loaded \in SUBSET {"a"} :
      /\ fd = FileDescriptorProto(Some("r"), Some("p"),
                <<DescriptorProto(Some("R"))>>, <<"a">>)
      /\ fds = <<FileDescriptorProto(Some("a"), package, message_type, <<>>)>>
      /\ schemas = [n \in loaded |-> <<n>>]

InitRefs ==
  /\ GraphInputs \/ ShapeInputs
  /\ result = None
  /\ StripIdle /\ PostIdle

Resolve ==
  /\ result = None
  /\ result' = Some(get_protobuf_references(fd, fds, schemas))
  /\ UNCHANGED <<fd, fds, schemas, strip_vars, post_vars>>

NextRefs == Resolve

SpecRefs == InitRefs /\ [][NextRefs]_vars

\* ------------------------------------------------------------------------
\* The post command: main, post_protobuf_schema, run_post
\* ------------------------------------------------------------------------

RootFile == "x.proto"

SourceFiles == {"x.proto", "y.proto", "z.proto"}

SchemaTypeOpt == {"avro", "json", "protobuf"}

\* On-disk contents of a source file
DiskTexts ==
  { <<"a">>,
    <<"/", "*", "a", "*", "/", "b">>,
    <<"b", "/", "/", "a", "\n">> }

Permutations_of(S) ==
  { p \in [1..Cardinality(S) -> S] : \A i, j \in DOMAIN p : i # j => p[i] # p[j] }

\* What the compiler can hand back for RootFile: the descriptors of the root
\* and of its transitive imports (--include_imports), in any order.  An
\* imported file need not declare a message.
DescriptorSets ==
  UNION {
    LET deps == [n \in SourceFiles |->
                   IF n = "x.proto" THEN xd ELSE IF n = "y.proto" THEN yd ELSE <<>>]
        msgs == [n \in SourceFiles |->
                   IF n = "z.proto" THEN zm ELSE <<DescriptorProto(Some("M"))>>]
        direct == Range(xd)
        files == {"x.proto"} \cup direct
                   \cup (IF "y.proto" \in direct THEN Range(yd) ELSE {})
    IN  { [i \in DOMAIN p |->
             FileDescriptorProto(Some(p[i]), Some("p"), msgs[p[i]], deps[p[i]])] :
          p \in Permutations_of(files) }
    : xd \in { <<>>, <<"y.proto">>, <<"z.proto">>,
               <<"y.proto", "z.proto">>, <<"z.proto", "y.proto">> },
      yd \in { <<>>, <<"z.proto">> },
      zm \in { <<>>, <<DescriptorProto(Some("M"))>> } }

\* The fold that loads every descriptor's source text
RECURSIVE load_schemas(_, _, _, _, _)
load_schemas(files, k, files_on_disk, strip, acc) ==
  IF k > Len(files) THEN Ok(acc)
  ELSE IF files[k].name = None
  THEN Err("missing name in file descriptor", "")
  ELSE
    LET name == files[k].name[1]
    IN  IF name \notin DOMAIN files_on_disk
        THEN Err("failed to locate file for", name)
        ELSE
          LET text == IF strip THEN strip_comments(files_on_disk[name])
                      ELSE files_on_disk[name]
          IN  load_schemas(files, k + 1, files_on_disk, strip,
                [n \in (DOMAIN acc) \cup {name} |->
                   IF n = name THEN text ELSE acc[n]])

SuppliedSchema(text, references) ==
  [name |-> None, schema_type |-> "protobuf", schema |-> text,
   references |-> references]

Init ==
  /\ pc = "main"
  /\ settings \in [schema_type : SchemaTypeOpt, strip_comments : BOOLEAN,
                   file : {RootFile},
                   topic : {None, Some("t")}, record : {None, Some("rec")}]
  /\ disk \in [SourceFiles -> DiskTexts]
  /\ fd = None /\ fds = <<>> /\ schemas = <<>> /\ result = None
  /\ supplied = None /\ post_calls = 0
  /\ StripIdle

\* post_avro_schema, post_json_schema: unimplemented!()
PostUnsupported ==
  /\ pc = "main" /\ settings.schema_type \in {"avro", "json"}
  /\ pc' = "panicked"
  /\ UNCHANGED <<settings, disk, supplied, post_calls, refs_vars, strip_vars>>

\* post_protobuf_schema up to the regexes: canonicalize, parse_protos
ParseProtos ==
  /\ pc = "main" /\ settings.schema_type = "protobuf"
  /\ \/ /\ pc' = "failed"
        /\ fds' = fds
     \/ /\ fds' \in DescriptorSets
        /\ pc' = "parsed"
  /\ UNCHANGED <<settings, disk, supplied, post_calls, fd, schemas, result,
                 strip_vars>>

\* the try_fold that builds `schemas'
LoadSchemas ==
  /\ pc = "parsed"
  /\ \/ /\ pc' = "failed"
        /\ schemas' = schemas
     \/ LET r == load_schemas(fds, 1, disk, settings.strip_comments, <<>>)
        IN  IF r.kind = "ok"
            THEN pc' = "loaded" /\ schemas' = r.value
            ELSE pc' = "failed" /\ schemas' = schemas
  /\ UNCHANGED <<settings, disk, supplied, post_calls, fd, fds, result,
                 strip_vars>>

\* fd_set.file.pop() and the assert_eq! on the root's name
PopRoot ==
  /\ pc = "loaded"
  /\ IF fds = <<>>
     THEN pc' = "panicked" /\ UNCHANGED <<fd, fds>>
     ELSE /\ fds' = SubSeq(fds, 1, Len(fds) - 1)
          /\ fd' = fds[Len(fds)]
          /\ pc' = IF fds[Len(fds)].name = Some(settings.file)
                   THEN "rooted" ELSE "panicked"
  /\ UNCHANGED <<settings, disk, supplied, post_calls, schemas, result,
                 strip_vars>>

\* A plausible slip: a resolution error is dropped and the schema goes out
\* without references.
Assemble_lenient ==
  /\ pc = "rooted"
  /\ LET r == get_protobuf_references(fd, fds, schemas)
     IN  /\ pc' = "assembled"
         /\ supplied' = Some(SuppliedSchema(disk[settings.file],
                               IF r.kind = "ok" THEN r.value ELSE <<>>))
  /\ UNCHANGED <<settings, disk, post_calls, refs_vars, strip_vars>>

\* A plausible slip: the root's text is taken from `schemas' instead of being
\* read again.
Assemble_reusing_loaded_text ==
  /\ pc = "rooted"
  /\ LET r == get_protobuf_references(fd, fds, schemas)
     IN  IF r.kind = "ok"
         THEN /\ pc' = "assembled"
              /\ supplied' = Some(SuppliedSchema(schemas[settings.file], r.value))
         ELSE /\ pc' = "failed"
              /\ supplied' = supplied
  /\ UNCHANGED <<settings, disk, post_calls, refs_vars, strip_vars>>

\* the SuppliedSchema literal: the root file is read again, then the
\* references are resolved
Assemble ==
  /\ pc = "rooted"
  /\ \/ /\ pc' = "failed"
        /\ supplied' = supplied
     \/ LET r == get_protobuf_references(fd, fds, schemas)
        IN  IF r.kind = "ok"
            THEN /\ pc' = "assembled"
                 /\ supplied' = Some(SuppliedSchema(disk[settings.file], r.value))
            ELSE /\ pc' = IF r.kind = "err" THEN "failed" ELSE "aborted"
                 /\ supplied' = supplied
  /\ UNCHANGED <<settings, disk, post_calls, refs_vars, strip_vars>>

\* schema_registry_settings_from_settings, subject_name_strategy_from_settings,
\* get_subject
Configure ==
  /\ pc = "assembled"
  /\ \/ pc' = "failed"
     \/ /\ settings.topic # None \/ settings.record # None
        /\ pc' = "ready"
  /\ UNCHANGED <<settings, disk, supplied, post_calls, refs_vars, strip_vars>>

\* run_post: the one call of post_schema
RunPost ==
  /\ pc = "ready"
  /\ post_calls' = post_calls + 1
  /\ \/ pc' = "done"
     \/ pc' = "failed"
  /\ UNCHANGED <<settings, disk, supplied, refs_vars, strip_vars>>

Next ==
  \/ PostUnsupported
  \/ ParseProtos
  \/ LoadSchemas
  \/ PopRoot
  \/ Assemble
  \/ Configure
  \/ RunPost

Spec == Init /\ [][Next]_vars

\* ------------------------------------------------------------------------
\* Properties of strip_comments (checked under SpecStrip)
\* ------------------------------------------------------------------------

\* C1: strip_comments is idempotent: stripping the stripped text changes
\* nothing, also when deleting a block comment joins the characters around
\* it into a new comment marker.
C1_StripIdempotent ==
  restripped # None => restripped = stripped

\* Offsets of the block-comment openers that no later `*/' closes
UnterminatedOpeners(s) ==
  { i \in 0..(Len(s) - 2) :
      s[i + 1] = "/" /\ s[i + 2] = "*" /\ ml_closers(s, i) = {} }

\* C9: when the text has a block-comment opener that is never closed, the
\* stripper (which cannot report an error) removes everything from that
\* opener to the end of the input, so nothing of the output lies at or beyond
\* the first such opener.
C9_UnterminatedBlockRemoved ==
  (stripped # None /\ UnterminatedOpeners(schema) # {})
    => Len(stripped[1]) <= SetMin(UnterminatedOpeners(schema))

\* The block-comment spans of s that have a `//' between opener and closer
SpansWithLineMarker(s) ==
  LET ms == ml_find_iter(s, 0)
  IN  { ms[k] : k \in { h \in DOMAIN ms :
          \E i \in (ms[h].start + 2)..(ms[h].end - 4) :
             s[i + 1] = "/" /\ s[i + 2] = "/" } }

\* What follows offset `from' on the same line
RestOfLine(s, from) ==
  LET nls == { j \in from..(Len(s) - 1) : s[j + 1] = "\n" }
  IN  Slice(s, from, IF nls = {} THEN Len(s) ELSE SetMin(nls))

\* C10: a `//' inside a closed block-comment span triggers no line-comment
\* removal of its own: the output is the stripped text before the span
\* followed by the stripped text after it, and what follows the `*/' on the
\* same line, when it holds no comment marker itself, is kept as it is.
C10_LineMarkerInsideBlockIgnored ==
  stripped # None =>
    \A m \in SpansWithLineMarker(schema) :
      LET before == strip_comments(Slice(schema, 0, m.start))
          after  == strip_comments(SliceFrom(schema, m.end))
          rest   == RestOfLine(schema, m.end)
      IN  /\ stripped[1] = before \o after
          /\ "/" \notin Range(rest)
               => SubSeq(stripped[1], Len(before) + 1, Len(before) + Len(rest)) = rest

C10_Witness ==
  /\ stripped # None
  /\ \E m \in SpansWithLineMarker(schema) :
       /\ RestOfLine(schema, m.end) # <<>>
       /\ "/" \notin Range(RestOfLine(schema, m.end))

\* ------------------------------------------------------------------------
\* Properties of get_protobuf_references (checked under SpecRefs)
\* ------------------------------------------------------------------------

Returned == result # None /\ result[1].kind = "ok"

\* refs lists, name by name and level by level, the dependencies of d
RECURSIVE Mirrors(_, _)
Mirrors(d, refs) ==
  /\ Len(refs) = Len(d.dependency)
  /\ \A i \in DOMAIN refs :
       /\ refs[i].name = d.dependency[i]
       /\ find_fd(fds, refs[i].name) # None
       /\ Mirrors(find_fd(fds, refs[i].name)[1], refs[i].references)

\* C2: whenever get_protobuf_references succeeds, the list returned mirrors
\* fd.dependency (same length, same names at the same indexes), and so does,
\* recursively, every reference's own list for the descriptor it names.
C2_ReferencesMirrorDependencies ==
  Returned => Mirrors(fd, result[1].value)

C2_Witness ==
  /\ Returned
  /\ Len(result[1].value) = 2
  /\ \E i \in 1..2 : Len(result[1].value[i].references) = 2

\* The file names the recursion can come to, starting from a set of names
RECURSIVE ImportClosure(_)
ImportClosure(S) ==
  LET T == S \cup UNION { Range(find_fd(fds, n)[1].dependency) :
                            n \in { m \in S : find_fd(fds, m) # None } }
  IN  IF T = S THEN S ELSE ImportClosure(T)

Reachable == ImportClosure(Range(fd.dependency))

Unresolved == \E n \in Reachable : find_fd(fds, n) = None

Cyclic ==
  \E n \in Reachable :
    /\ find_fd(fds, n) # None
    /\ n \in ImportClosure(Range(find_fd(fds, n)[1].dependency))

\* C3 as stated: a dependency name without a descriptor, at the top level or
\* deeper, makes the call return an error.
C3_UnresolvedReturnsError ==
  (result # None /\ Unresolved) => result[1].kind = "err"

\* C3 as amended: with such a name the call never returns a reference list;
\* it returns an error, or, when the imports form a cycle, it may exhaust the
\* stack instead of returning.
C3_UnresolvedNeverReturnsList ==
  (result # None /\ Unresolved) =>
    \/ result[1].kind = "err"
    \/ result[1].kind = "overflow" /\ Cyclic

\* An error for the second dependency, after the first was resolved in full
C3_Witness ==
  /\ result # None /\ result[1].kind = "err"
  /\ Len(fd.dependency) = 2
  /\ result[1].name = fd.dependency[2]
  /\ result[1].msg = "failed to locate file for dependency"
  /\ find_fd(fds, fd.dependency[1]) # None
  /\ find_fd(fds, fd.dependency[1])[1].dependency # <<>>

\* C4: the subject of a dependency is its package, a dot, and the name of
\* its first message; with no package, or with the empty string as package,
\* it is the message name alone.
C4_SubjectDerivation ==
  (Returned /\ result[1].value # <<>>) =>
    LET dep == find_fd(fds, result[1].value[1].name)[1]
        mt  == dep.message_type[1]
    IN  mt.name # None =>
          result[1].value[1].subject =
            IF dep.package = None \/ dep.package = Some("")
            THEN mt.name[1]
            ELSE dep.package[1] \o "." \o mt.name[1]

RECURSIVE NodeCount(_)
NodeCount(refs) ==
  IF refs = <<>> THEN 0
  ELSE 1 + NodeCount(refs[1].references) + NodeCount(Tail(refs))

\* (FileDescriptor, appearance in a dependency list) pairs: the entries of
\* the dependency lists of fd and of the descriptors reachable from it
DependencyEntries ==
  { <<"r", i>> : i \in DOMAIN fd.dependency }
    \cup UNION { { <<n, i>> : i \in DOMAIN find_fd(fds, n)[1].dependency } :
                 n \in { m \in Reachable : find_fd(fds, m) # None } }

\* Chains of imports that start in fd.dependency
DependencyPaths ==
  { p \in UNION { [1..n -> FileNames] : n \in 1..Cardinality(FileNames) } :
      /\ p[1] \in Range(fd.dependency)
      /\ \A i \in 1..(Len(p) - 1) :
           /\ find_fd(fds, p[i]) # None
           /\ p[i + 1] \in Range(find_fd(fds, p[i])[1].dependency) }

\* Every file the recursion can come to has a descriptor with a message
\* type, and a loaded source text
Resolvable ==
  \A n \in Reachable :
    /\ find_fd(fds, n) # None
    /\ find_fd(fds, n)[1].message_type # <<>>
    /\ n \in DOMAIN schemas

\* C7 as stated: on an acyclic graph the tree returned has as many nodes as
\* there are (FileDescriptor, appearance in a dependency list) pairs.
C7_NodeCountIsEntryCount ==
  (Returned /\ ~Cyclic) =>
    NodeCount(result[1].value) = Cardinality(DependencyEntries)

\* C7 as amended: on an acyclic graph the call never overflows; when every
\* dependency resolves it returns a tree with one node per chain of imports
\* starting at fd (a shared dependency once per path that leads to it).
C7_NodeCountIsPathCount ==
  (result # None /\ ~Cyclic) =>
    /\ result[1].kind # "overflow"
    /\ Resolvable => Returned
    /\ Returned => NodeCount(result[1].value) = Cardinality(DependencyPaths)

\* A shared dependency that has a dependency of its own
C7_Witness ==
  /\ Returned /\ ~Cyclic
  /\ NodeCount(result[1].value) > Cardinality(DependencyEntries)

\* ------------------------------------------------------------------------
\* Properties of the post command (checked under Spec)
\* ------------------------------------------------------------------------

\* C5: assembly does not depend on the order of the descriptor set: whatever
\* the order of a valid set, the root is identified and the root-name check
\* does not fail, so the protobuf path never panics.
C5_OrderIndependentAssembly ==
  settings.schema_type = "protobuf" => pc # "panicked"

Rank ==
  [main |-> 0, parsed |-> 1, loaded |-> 2, rooted |-> 3, assembled |-> 4,
   ready |-> 5, done |-> 6, failed |-> 6, panicked |-> 6, aborted |-> 6]

\* C6: post_schema is called at most once, and only with a schema whose
\* assembly succeeded; a step that failed ends the command (no step follows
\* it, none is taken twice), with no call of post_schema unless the failure
\* is that call's own.
C6_PostOnlyAfterAssembly ==
  [][ /\ pc \notin {"done", "failed", "panicked", "aborted"}
      /\ Rank[pc'] > Rank[pc]
      /\ post_calls' # post_calls =>
           /\ post_calls = 0 /\ post_calls' = 1
           /\ pc = "ready"
           /\ supplied # None
           /\ LET r == get_protobuf_references(fd, fds, schemas)
              IN  r.kind = "ok" /\ supplied[1].references = r.value
      /\ (pc # "ready" /\ pc' \in {"failed", "panicked", "aborted"})
           => post_calls' = 0 ]_vars

C6_Witness ==
  pc = "done" /\ post_calls = 1 /\ supplied # None

\* The text a reference carries for a file
LoadedText(name) ==
  IF settings.strip_comments THEN strip_comments(disk[name]) ELSE disk[name]

RECURSIVE CarryLoadedTexts(_)
CarryLoadedTexts(refs) ==
  \A i \in DOMAIN refs :
    /\ refs[i].schema = LoadedText(refs[i].name)
    /\ CarryLoadedTexts(refs[i].references)

\* C8: the assembled schema's text is the root file's on-disk contents,
\* stripping enabled or not; stripping shows only in the texts the
\* references carry; a root without imports has an empty reference list.
C8_RootTextIsRaw ==
  supplied # None =>
    /\ supplied[1].schema = disk[settings.file]
    /\ CarryLoadedTexts(supplied[1].references)
    /\ fd.dependency = <<>> => supplied[1].references = <<>>

\* Stripping is enabled and would change both the root's text and a
\* reference's
C8_Witness ==
  /\ supplied # None
  /\ settings.strip_comments
  /\ strip_comments(disk[settings.file]) # disk[settings.file]
  /\ supplied[1].references # <<>>
  /\ supplied[1].references[1].schema # disk[supplied[1].references[1].name]

====
